---------------------------- MODULE Spec2Model ----------------------------
(***************************************************************************)
(* Calibration subsystem of the body-measurement wrappers.                 *)
(*                                                                         *)
(* Two command-line orchestrators serve a request:                         *)
(*   prog = "root"    src/wrapper.py          (--calibration_method is     *)
(*                                             optional, auto-selection)   *)
(*   prog = "python"  src/python/wrapper.py   (--calibration is required)  *)
(* Both reach the SpatialLM bridge (src/python/spatiallm_bridge.py) for    *)
(* the spatial strategy.                                                   *)
(*                                                                         *)
(* Numbers are exact rationals <<n, d>> in lowest terms with d > 0; the    *)
(* pair <<0, 0>> stands for Python's None.  What the file system, the      *)
(* optional libraries and the detectors answer is the environment: each    *)
(* answer is chosen when the code first asks for it and is remembered, so  *)
(* that a second invocation with the same inputs sees the same world.      *)
(***************************************************************************)
EXTENDS Integers, Sequences, FiniteSets, TLC

VARIABLES
    prog,         \* which wrapper serves the request
    args,         \* the parsed command line
    env,          \* remembered answers of the environment ("?" = not asked yet)
    pc,           \* position in main()
    method,       \* calibration_method once main() has determined it
    calibration,  \* what the selected strategy returned
    tier,         \* which code path produced the spatial calibration
    stdout,       \* JSON documents printed so far, in order
    exit_code,    \* process exit status (-1 while running)
    run,          \* number of the current invocation with these inputs
    prev,         \* documents printed by the previous invocation
    lidar_data,   \* depth data handed to the point-cloud builder
    image_file,   \* what cv2.imread gives for the builder's image_path
    intrinsics,   \* camera_intrinsics handed to the builder
    cloud,        \* outcome of the point-cloud builder
    temp_files,   \* temporary .ply files the builder has left on disk
    layout_text,  \* layout text handed to extract_calibration_from_layout
    layout,       \* outcome of extract_calibration_from_layout
    scene,        \* objects and walls handed to calculate_calibration_from_objects
    aggregate,    \* outcome of calculate_calibration_from_objects
    bridge_call,  \* point cloud path, SpatialLM source and inference of a bridge call
    answer        \* outcome of the bridge's process_lidar_data

main_vars == <<prog, args, env, pc, method, calibration, tier, stdout, exit_code, run, prev>>
cloud_vars == <<lidar_data, image_file, intrinsics, cloud, temp_files>>
layout_vars == <<layout_text, layout, scene, aggregate>>
bridge_vars == <<bridge_call, answer>>
lib_vars == <<cloud_vars, layout_vars, bridge_vars>>
vars == <<main_vars, lib_vars>>

---------------------------------------------------------------------------
(* Bounds of the model *)

\* invocations made with the same inputs and environment
MaxRuns == 2
\* width in pixels of the input image (src/wrapper.py simulates a reference
\* object that is 0.3 of the image width)
ImageWidth == 600

---------------------------------------------------------------------------
(* Exact rational arithmetic for the Python floats *)

Abs(n) == IF n < 0 THEN -n ELSE n

RECURSIVE GCD(_, _)
GCD(a, b) == IF b = 0 THEN a ELSE GCD(b, a % b)

\* n/d in lowest terms, sign carried by the numerator; d # 0
Rat(n, d) ==
    LET s == IF d < 0 THEN -1 ELSE 1
        g == GCD(Abs(n), Abs(d))
    IN  <<(s * n) \div g, (s * d) \div g>>

None == <<0, 0>>
IsNone(r) == r[2] = 0
Whole(n) == <<n, 1>>

RAdd(a, b) == Rat(a[1] * b[2] + b[1] * a[2], a[2] * b[2])
RSub(a, b) == Rat(a[1] * b[2] - b[1] * a[2], a[2] * b[2])
RMul(a, b) == Rat(a[1] * b[1], a[2] * b[2])
\* defined for b # 0 only; the callers test for ZeroDivisionError first
RDiv(a, b) == Rat(a[1] * b[2], a[2] * b[1])
RAbs(a) == <<Abs(a[1]), a[2]>>
RLt(a, b) == a[1] * b[2] < b[1] * a[2]
RLe(a, b) == a[1] * b[2] <= b[1] * a[2]
IsZero(a) == a[2] # 0 /\ a[1] = 0

\* Python truthiness of an optional float: None and 0.0 are false
Truthy(r) == ~IsNone(r) /\ ~IsZero(r)

---------------------------------------------------------------------------
(* Outcome of a call: a returned value or a raised exception *)

Ok(v) == [raised |-> FALSE, value |-> v]
Raise(m) == [raised |-> TRUE, error |-> m]

NoCalibration == [method |-> "none"]

---------------------------------------------------------------------------
(* The command line *)

Methods == {"direct", "height", "spatial", "reference"}

FactorArgs == {None, Whole(0), Rat(1, 2), Rat(-1, 2)}
HeightArgs == {None, Whole(175)}
\* the depth-map file named on the command line: absent, readable JSON, or
\* a path that cannot be opened / parsed
DepthArgs == {"none", "ok", "unreadable"}
PointCloudArgs == {"none", "ok"}
\* --camera_intrinsics: absent, a JSON string, the path of a JSON file, or
\* a JSON string that is also the name of a JSON file (such as 1)
IntrinsicsArgs == {"none", "json_text", "json_path", "json_text_and_path"}
RefObjectArgs == {"none", "a4_paper", "custom"}
RefDimArgs == {[width |-> None, height |-> None],
               [width |-> Whole(20), height |-> Whole(30)]}

Args(p) ==
    [calibration_method : IF p = "root" THEN Methods \cup {"none"} ELSE Methods,
     calibration_factor : FactorArgs,
     person_height : HeightArgs,
     depth_map : DepthArgs,
     point_cloud : IF p = "root" THEN PointCloudArgs ELSE {"none"},
     \* src/wrapper.py never reads the value it is given
     camera_intrinsics : IF p = "root" THEN {"none", "json_text"} ELSE IntrinsicsArgs,
     reference_object : RefObjectArgs,
     ref_dims : RefDimArgs]

---------------------------------------------------------------------------
(* The environment *)

Unknown == "?"

EnvFields == {"image_exists", "image_loads", "torch", "bridge", "spatiallm",
              "real", "pose", "bbox", "float_points"}

YesNo == {"yes", "no"}

\* the answer v of the environment to question f: fresh, or the one given before
Asks(f, v) == env[f] = Unknown \/ env[f] = v

\* the answers to question f among D when the code asks it; what is known
\* already (possibly nothing) when it does not
Answers(f, D, asked) == IF asked THEN {v \in D : Asks(f, v)} ELSE {env[f]}

\* the bridge's library functions are not being exercised
NotCalled == [called |-> "no"]

CloudIdle ==
    /\ lidar_data = NotCalled /\ image_file = NotCalled /\ intrinsics = "none"
    /\ cloud = NotCalled /\ temp_files = 0

LayoutIdle ==
    /\ layout_text = <<>> /\ layout = NotCalled
    /\ scene = NotCalled /\ aggregate = NotCalled

BridgeIdle == bridge_call = NotCalled /\ answer = NotCalled

LibraryIdle == CloudIdle /\ LayoutIdle /\ BridgeIdle

Init ==
    /\ prog \in {"root", "python"}
    /\ args \in Args(prog)
    /\ env = [f \in EnvFields |-> Unknown]
    /\ pc = "start"
    /\ method = "none"
    /\ calibration = NoCalibration
    /\ tier = "none"
    /\ stdout = <<>>
    /\ exit_code = -1
    /\ run = 1
    /\ prev = <<>>
    /\ LibraryIdle

---------------------------------------------------------------------------
(* Printed documents *)

ResultDoc(c) == [kind |-> "result", calibration |-> c]
ErrorDoc(m) == [kind |-> "error", error |-> m]

\* the calibration mappings a sequence of printed documents carries
ResultsOf(docs) ==
    {docs[i].calibration : i \in {j \in DOMAIN docs : docs[j].kind = "result"}}

Results == ResultsOf(stdout)
PrintedError == \E i \in DOMAIN stdout : stdout[i].kind = "error"

---------------------------------------------------------------------------
(* Person detection: what the pose detector and the contour detector see. *)
(* Landmark ordinates are in pixels of the image (landmark.y * rows).     *)

PoseNames == {"no_mediapipe", "no_landmarks", "full_body", "left_ankle_only",
              "no_nose", "no_ankles", "zero_height"}

Landmarks(min_y, nv, ny, lv, ly, rv, ry) ==
    [mediapipe |-> TRUE, landmarks |-> TRUE, min_y |-> Whole(min_y),
     nose_vis |-> nv, nose_y |-> Whole(ny),
     left_vis |-> lv, left_y |-> Whole(ly),
     right_vis |-> rv, right_y |-> Whole(ry)]

PoseOf(name) ==
    CASE name = "no_mediapipe" ->
            [Landmarks(0, FALSE, 0, FALSE, 0, FALSE, 0)
                EXCEPT !.mediapipe = FALSE, !.landmarks = FALSE]
      [] name = "no_landmarks" ->
            [Landmarks(0, FALSE, 0, FALSE, 0, FALSE, 0) EXCEPT !.landmarks = FALSE]
      [] name = "full_body" -> Landmarks(100, TRUE, 100, TRUE, 590, TRUE, 610)
      [] name = "left_ankle_only" -> Landmarks(100, TRUE, 100, TRUE, 600, FALSE, 700)
      [] name = "no_nose" -> Landmarks(150, FALSE, 100, TRUE, 590, TRUE, 610)
      [] name = "no_ankles" -> Landmarks(100, TRUE, 100, FALSE, 600, FALSE, 600)
      [] name = "zero_height" -> Landmarks(600, FALSE, 100, TRUE, 600, FALSE, 700)

BBoxNames == {"none", "h400"}

\* height of the bounding rectangle of the largest contour, None without contours
BBoxOf(name) == IF name = "h400" THEN Whole(400) ELSE None

---------------------------------------------------------------------------
(* src/python/wrapper.py: the strategies *)

\* reference_objects table of get_reference_object_dimensions
P_ReferenceTable ==
    [a4_paper |-> [width |-> Rat(210, 10), height |-> Rat(297, 10)],
     letter_paper |-> [width |-> Rat(2159, 100), height |-> Rat(2794, 100)],
     credit_card |-> [width |-> Rat(856, 100), height |-> Rat(54, 10)],
     dollar_bill |-> [width |-> Rat(156, 10), height |-> Rat(66, 10)],
     euro_bill |-> [width |-> Rat(120, 10), height |-> Rat(62, 10)]]
    @@ ("30cm_ruler" :> [width |-> Rat(300, 10), height |-> Rat(30, 10)])

get_reference_object_dimensions(reference_object) ==
    IF reference_object \in DOMAIN P_ReferenceTable
    THEN Ok(P_ReferenceTable[reference_object])
    ELSE Raise("Unknown reference object")

detect_person_height_mediapipe(p) ==
    IF ~p.mediapipe THEN None
    ELSE IF ~p.landmarks THEN None
    ELSE IF ~p.left_vis /\ ~p.right_vis THEN None
    ELSE LET foot_y == IF p.left_vis /\ p.right_vis
                       THEN RDiv(RAdd(p.left_y, p.right_y), Whole(2))
                       ELSE IF p.left_vis THEN p.left_y ELSE p.right_y
         IN  RSub(foot_y, p.min_y)

detect_person_height_fallback(b) == BBoxOf(b)

\* a variant with the quotient inverted (pixels per cm)
HeightFactor_inverted(person_height_cm, person_height_px) ==
    RDiv(person_height_px, person_height_cm)

\* calibration_factor = person_height_cm / person_height_px
HeightFactor(person_height_cm, person_height_px) ==
    RDiv(person_height_cm, person_height_px)

\* the pixel height calculate_height_calibration settles on
P_person_height_px(p, b) ==
    LET mp == detect_person_height_mediapipe(p)
    IN  IF IsNone(mp) THEN detect_person_height_fallback(b) ELSE mp

\* a variant that answers with a default factor when nobody is detected
calculate_height_calibration_default(p, b, person_height_cm) ==
    LET px == P_person_height_px(p, b)
    IN  IF IsNone(px) THEN Ok(Rat(1, 10))
        ELSE IF IsZero(px) THEN Raise("ZeroDivisionError")
        ELSE Ok(HeightFactor(person_height_cm, px))

calculate_height_calibration(p, b, person_height_cm) ==
    LET px == P_person_height_px(p, b)
    IN  IF IsNone(px) THEN Raise("Could not detect person in the image")
        ELSE IF IsZero(px) THEN Raise("ZeroDivisionError")
        ELSE Ok(HeightFactor(person_height_cm, px))

\* the mocked detection is 200 x 150 pixels
calculate_reference_calibration(ref_width_cm, ref_height_cm) ==
    RDiv(RAdd(RDiv(ref_width_cm, Whole(200)), RDiv(ref_height_cm, Whole(150))),
         Whole(2))

---------------------------------------------------------------------------
(* src/python/spatiallm_bridge.py: extract_calibration_from_layout and     *)
(* calculate_calibration_from_objects.  A layout text is the sequence of   *)
(* its lines and a line the sequence of its whitespace-separated tokens.   *)

\* IEEE infinity, which numpy gives for a non-zero quotient by 0.0
Infinity == <<1, 0>>

\* the tokens float() converts and their values; any other token raises
NumericLiterals ==
    ("0" :> Whole(0)) @@ ("1" :> Whole(1)) @@ ("3" :> Whole(3)) @@ ("4" :> Whole(4))
    @@ ("-1" :> Whole(-1)) @@ ("2.5" :> Rat(5, 2)) @@ ("0.5" :> Rat(1, 2))
    @@ ("0.9" :> Rat(9, 10)) @@ ("2.1" :> Rat(21, 10)) @@ ("0.95" :> Rat(95, 100))

float(token) ==
    IF token \in DOMAIN NumericLiterals
    THEN Ok(NumericLiterals[token])
    ELSE Raise("could not convert string to float")

\* first tokens that begin with the prefix
startswith(line, prefix) ==
    /\ line # <<>>
    /\ line[1] \in (IF prefix = "WALL" THEN {"WALL", "WALLS"} ELSE {prefix})

\* str.lower() of an object label
lower(label) == IF label = "Door" THEN "door" ELSE label

\* largest root looked for by np.sqrt below
MaxRoot == 10

\* np.sqrt of a rational that is a perfect square
sqrt(r) ==
    Rat(CHOOSE n \in 0..MaxRoot : n * n = r[1], CHOOSE d \in 1..MaxRoot : d * d = r[2])

Square(r) == RMul(r, r)

\* float() of each 0-based position of parts, in order; the first failure
\* raises
floats(parts, positions) ==
    IF \E i \in DOMAIN positions : float(parts[positions[i] + 1]).raised
    THEN Raise("could not convert string to float")
    ELSE Ok([i \in DOMAIN positions |-> float(parts[positions[i] + 1]).value])

\* the WALL branch: the walls one line appends
parse_wall(parts) ==
    IF Len(parts) >= 8
    THEN LET f == floats(parts, <<1, 2, 3, 4, 5, 6>>)
         IN  IF f.raised THEN f
             ELSE Ok(<<[length |->
                          sqrt(RAdd(RAdd(Square(RSub(f.value[4], f.value[1])),
                                         Square(RSub(f.value[5], f.value[2]))),
                                    Square(RSub(f.value[6], f.value[3]))))]>>)
    ELSE Ok(<<>>)

\* the OBJECT branch: the objects one line appends
parse_object(parts) ==
    IF Len(parts) >= 11
    THEN LET f == floats(parts, <<2, 3, 4, 5, 6, 7>>)
             confidence == IF Len(parts) > 10 THEN float(parts[10 + 1])
                           ELSE Ok(Rat(9, 10))
         IN  IF f.raised THEN f
             ELSE IF confidence.raised THEN confidence
             ELSE Ok(<<[type |-> parts[1 + 1],
                        width |-> RMul(f.value[5], Whole(100)),
                        height |-> RMul(f.value[6], Whole(100)),
                        length |-> RMul(f.value[4], Whole(100)),
                        confidence |-> confidence.value]>>)
    ELSE Ok(<<>>)

RECURSIVE parse_lines(_, _, _)
\* the loop over the lines, with the objects and walls gathered so far
parse_lines(lines, objects, walls) ==
    IF lines = <<>> THEN Ok([objects |-> objects, walls |-> walls])
    ELSE LET line == Head(lines)
         IN  IF startswith(line, "WALL")
             THEN LET w == parse_wall(line)
                  IN  IF w.raised THEN w
                      ELSE parse_lines(Tail(lines), objects, walls \o w.value)
             ELSE IF startswith(line, "OBJECT")
             THEN LET o == parse_object(line)
                  IN  IF o.raised THEN o
                      ELSE parse_lines(Tail(lines), objects \o o.value, walls)
             ELSE parse_lines(Tail(lines), objects, walls)

standard_dimensions ==
    [door |-> [width |-> 90, height |-> 210],
     chair |-> [width |-> 45, height |-> 85],
     table |-> [width |-> 120, height |-> 75],
     sofa |-> [width |-> 180, height |-> 85],
     bed |-> [width |-> 160, height |-> 50],
     desk |-> [width |-> 120, height |-> 75],
     refrigerator |-> [width |-> 75, height |-> 180],
     toilet |-> [width |-> 40, height |-> 40],
     sink |-> [width |-> 60, height |-> 30],
     bathtub |-> [width |-> 170, height |-> 55]]

standard_wall_height == 250

\* the (ratio, confidence) pairs one object appends
object_ratios(obj) ==
    IF lower(obj.type) \notin DOMAIN standard_dimensions THEN <<>>
    ELSE LET std == standard_dimensions[lower(obj.type)]
             width_ratio == IF RLt(Whole(0), obj.width)
                            THEN RDiv(Whole(std.width), obj.width) ELSE Whole(0)
             height_ratio == IF RLt(Whole(0), obj.height)
                             THEN RDiv(Whole(std.height), obj.height) ELSE Whole(0)
         IN  (IF RLt(Whole(0), width_ratio)
              THEN <<[ratio |-> width_ratio, confidence |-> obj.confidence]>>
              ELSE <<>>)
             \o (IF RLt(Whole(0), height_ratio)
                 THEN <<[ratio |-> height_ratio, confidence |-> obj.confidence]>>
                 ELSE <<>>)

RECURSIVE ratios_of_objects(_)
\* for obj in objects
ratios_of_objects(objects) ==
    IF objects = <<>> THEN <<>>
    ELSE object_ratios(Head(objects)) \o ratios_of_objects(Tail(objects))

RECURSIVE sum(_)
sum(values) == IF values = <<>> THEN Whole(0) ELSE RAdd(Head(values), sum(Tail(values)))

\* the (ratio, 0.7) pair the walls append
wall_ratio(walls) ==
    LET avg_wall_length == RDiv(sum([i \in DOMAIN walls |-> walls[i].length]),
                                Whole(Len(walls)))
    IN  [ratio |-> IF IsZero(avg_wall_length) THEN Infinity
                   ELSE RDiv(Whole(standard_wall_height),
                             RMul(avg_wall_length, Whole(100))),
         confidence |-> Rat(7, 10)]

\* a variant that averages the ratios without their weights
weighted_average_unweighted(ratios) ==
    RDiv(sum([i \in DOMAIN ratios |-> ratios[i].ratio]), Whole(Len(ratios)))

\* a variant that returns the default only for a total weight of exactly zero
weighted_average_unless_zero(ratios) ==
    LET total_weight == sum([i \in DOMAIN ratios |-> ratios[i].confidence])
    IN  IF IsZero(total_weight) THEN Rat(1, 10)
        ELSE IF \E i \in DOMAIN ratios : ratios[i].ratio = Infinity THEN Infinity
        ELSE RDiv(sum([i \in DOMAIN ratios |->
                          RMul(ratios[i].ratio, ratios[i].confidence)]),
                  total_weight)

\* weighted_sum / total_weight if total_weight > 0 else 0.1
weighted_average(ratios) ==
    LET total_weight == sum([i \in DOMAIN ratios |-> ratios[i].confidence])
    IN  IF ~RLt(Whole(0), total_weight) THEN Rat(1, 10)
        ELSE IF \E i \in DOMAIN ratios : ratios[i].ratio = Infinity THEN Infinity
        ELSE RDiv(sum([i \in DOMAIN ratios |->
                          RMul(ratios[i].ratio, ratios[i].confidence)]),
                  total_weight)

\* a variant in which the walls always contribute their ratio
gather_ratios_with_walls(objects, walls) ==
    ratios_of_objects(objects)
        \o (IF walls # <<>> THEN <<wall_ratio(walls)>> ELSE <<>>)

\* the ratios the aggregator averages
gather_ratios(objects, walls) ==
    LET ratios == ratios_of_objects(objects)
    IN  IF ratios = <<>> /\ walls # <<>> THEN <<wall_ratio(walls)>> ELSE ratios

calculate_calibration_from_objects(objects, walls) ==
    LET ratios == gather_ratios(objects, walls)
    IN  IF ratios # <<>> THEN weighted_average(ratios) ELSE Rat(1, 10)

extract_calibration_from_layout(text) ==
    LET p == parse_lines(text, <<>>, <<>>)
    IN  IF p.raised THEN p
        ELSE Ok([calibration_factor |->
                     calculate_calibration_from_objects(p.value.objects, p.value.walls),
                 confidence |-> Rat(9, 10),
                 objects |-> p.value.objects, walls |-> p.value.walls])

---------------------------------------------------------------------------
(* src/python/spatiallm_bridge.py: process_lidar_data and its two tiers.   *)
(*   depth_data, point_cloud_path, camera_intrinsics: "none" or supplied   *)
(*   loads: does cv2.imread decode the image                               *)
(*   sl:    SPATIALLM_IMPORT_SOURCE, "none" when SPATIALLM_AVAILABLE is    *)
(*          False                                                          *)
(*   real:  what the SpatialLM inference does with the point cloud         *)
(*   draw:  the value np.random.random() contributes to the mock factor    *)

SpatialLMSources == {"none", "repo", "pip"}

\* the inference raises, or yields a layout with recognised objects, or one
\* from which no ratio can be taken
RealOutcomes == {"raise", "objects", "no_ratio"}

\* calibration factor taken from the inferred layout: the confidence-weighted
\* mean of the object ratios, 0.1 when there is none
RealObjects(real) ==
    IF real = "objects"
    THEN <<[type |-> "door", width |-> Whole(30), height |-> Whole(70),
            length |-> Whole(10), confidence |-> Rat(95, 100)]>>
    ELSE <<>>

RealFactor(real) == calculate_calibration_from_objects(RealObjects(real), <<>>)

\* mock_factor = 0.08 + 0.04 * np.random.random(), a value of [0.08, 0.12)
MockDraws == {Rat(8, 100), Rat(10, 100), Rat(11, 100)}

mock_spatiallm_processing(loads, draw) ==
    IF loads = "no" THEN Raise("Could not load image from")
    ELSE Ok([calibration_factor |-> draw, confidence |-> Rat(92, 100),
             reference_objects |-> "mock_references"])

real_spatiallm_processing(depth_data, point_cloud_path, camera_intrinsics, loads, sl, real) ==
    LET from_depth == depth_data # "none" /\ point_cloud_path = "none"
    IN  IF from_depth /\ loads = "no" THEN Raise("Could not load image")
        ELSE IF ~from_depth /\ point_cloud_path = "none"
        THEN Raise("Either depth_data or point_cloud_path must be provided")
        ELSE IF real = "raise" THEN Raise("SpatialLM inference failed")
        ELSE IF sl = "repo"
        THEN Ok([calibration_factor |-> RealFactor(real), confidence |-> Rat(9, 10),
                 objects |-> real, walls |-> real])
        ELSE Ok([calibration_factor |-> RealFactor(real), confidence |-> Rat(9, 10),
                 reference_objects |-> real])

process_lidar_data(depth_data, point_cloud_path, camera_intrinsics, loads, sl, real, draw) ==
    IF sl # "none"
    THEN LET r == real_spatiallm_processing(depth_data, point_cloud_path,
                                            camera_intrinsics, loads, sl, real)
         IN  IF r.raised THEN mock_spatiallm_processing(loads, draw) ELSE r
    ELSE mock_spatiallm_processing(loads, draw)

\* which tier of process_lidar_data answered
process_lidar_tier(depth_data, point_cloud_path, camera_intrinsics, loads, sl, real) ==
    IF sl = "none" THEN "bridge_mock_unavailable"
    ELSE IF real_spatiallm_processing(depth_data, point_cloud_path,
                                      camera_intrinsics, loads, sl, real).raised
    THEN "bridge_mock_after_error"
    ELSE "real"

---------------------------------------------------------------------------
(* src/python/wrapper.py: calculate_spatial_calibration *)

\* json.loads accepts the string
ParsesAsJson(x) == x \in {"json_text", "json_text_and_path"}
\* open(x) followed by json.load succeeds
OpensAsJson(x) == x \in {"ok", "json_path", "json_text_and_path"}

SpatialResult(factor, confidence) ==
    [type |-> "spatial", method |-> "spatial", factor |-> factor,
     confidence |-> confidence, unit |-> "cm/pixel"]

P_calculate_spatial_calibration(depth_map_path, point_cloud_path, camera_intrinsics_path, bridge, loads, sl, real, draw) ==
    IF bridge = "no"
    THEN [cal |-> SpatialResult(Rat(5, 100), Rat(8, 10)),
          tier |-> "wrapper_mock_unavailable"]
    ELSE LET failed == [cal |-> SpatialResult(Rat(5, 100), Rat(7, 10)),
                        tier |-> "wrapper_mock_after_error"]
         IN  IF camera_intrinsics_path # "none" /\ ~OpensAsJson(camera_intrinsics_path)
             THEN failed
             ELSE IF depth_map_path # "none" /\ ~OpensAsJson(depth_map_path)
             THEN failed
             ELSE LET r == process_lidar_data(depth_map_path, point_cloud_path,
                                              camera_intrinsics_path,
                                              loads, sl, real, draw)
                  IN  IF r.raised THEN failed
                      ELSE [cal |-> SpatialResult(r.value.calibration_factor,
                                                  r.value.confidence),
                            tier |-> process_lidar_tier(depth_map_path,
                                        point_cloud_path, camera_intrinsics_path,
                                        loads, sl, real)]

---------------------------------------------------------------------------
(* src/python/wrapper.py: main *)

\* except Exception: print the error document, sys.exit(1)
P_Fail(m) ==
    /\ stdout' = Append(stdout, ErrorDoc(m))
    /\ exit_code' = 1
    /\ pc' = "done"

\* the input file is checked and the requested method read (the output
\* directory can be created and the output image written)
P_Start ==
    /\ prog = "python" /\ pc = "start"
    /\ \E ex \in YesNo :
         /\ Asks("image_exists", ex)
         /\ env' = [env EXCEPT !["image_exists"] = ex]
         /\ IF ex = "no"
            THEN P_Fail("Input file not found") /\ UNCHANGED method
            ELSE /\ pc' = "calibrate"
                 /\ method' = args.calibration_method
                 /\ UNCHANGED <<stdout, exit_code>>
    /\ UNCHANGED <<prog, args, calibration, tier, run, prev>>
    /\ UNCHANGED lib_vars

P_Direct ==
    /\ prog = "python" /\ pc = "calibrate"
    /\ method = "direct" /\ Truthy(args.calibration_factor)
    /\ calibration' = [method |-> "direct", factor |-> args.calibration_factor,
                       confidence |-> Whole(1), unit |-> "cm/pixel"]
    /\ pc' = "process"
    /\ UNCHANGED <<prog, args, env, method, tier, stdout, exit_code, run, prev>>
    /\ UNCHANGED lib_vars

P_Height ==
    /\ prog = "python" /\ pc = "calibrate"
    /\ ~(method = "direct" /\ Truthy(args.calibration_factor))
    /\ method = "height" /\ Truthy(args.person_height)
    /\ \E ld \in YesNo :
         /\ Asks("image_loads", ld)
         /\ IF ld = "no"
            THEN /\ env' = [env EXCEPT !["image_loads"] = ld]
                 /\ P_Fail("Could not load image")
                 /\ UNCHANGED calibration
            ELSE \E p \in Answers("pose", PoseNames, TRUE) :
                 \E b \in Answers("bbox", BBoxNames,
                        IsNone(detect_person_height_mediapipe(PoseOf(p)))) :
                   /\ env' = [env EXCEPT !["image_loads"] = ld,
                                         !["pose"] = p, !["bbox"] = b]
                   /\ LET r == calculate_height_calibration(PoseOf(p), b,
                                                            args.person_height)
                      IN  IF r.raised
                          THEN P_Fail(r.error) /\ UNCHANGED calibration
                          ELSE /\ calibration' =
                                    [method |-> "height", factor |-> r.value,
                                     confidence |-> Rat(9, 10), unit |-> "cm/pixel"]
                               /\ pc' = "process"
                               /\ UNCHANGED <<stdout, exit_code>>
    /\ UNCHANGED <<prog, args, method, tier, run, prev>>
    /\ UNCHANGED lib_vars

\* the dimensions the reference branch of main() resolves
P_reference_dimensions(a) ==
    IF a.reference_object # "none"
    THEN get_reference_object_dimensions(a.reference_object)
    ELSE IF Truthy(a.ref_dims.width) /\ Truthy(a.ref_dims.height)
    THEN Ok(a.ref_dims)
    ELSE Raise("Reference object calibration requires either reference_object or reference_width and reference_height")

P_Reference ==
    /\ prog = "python" /\ pc = "calibrate"
    /\ ~(method = "direct" /\ Truthy(args.calibration_factor))
    /\ ~(method = "height" /\ Truthy(args.person_height))
    /\ method = "reference"
    /\ LET d == P_reference_dimensions(args)
       IN  IF d.raised
           THEN P_Fail(d.error) /\ UNCHANGED <<env, calibration>>
           ELSE \E ld \in YesNo :
                  /\ Asks("image_loads", ld)
                  /\ env' = [env EXCEPT !["image_loads"] = ld]
                  /\ IF ld = "no"
                     THEN P_Fail("Could not load image") /\ UNCHANGED calibration
                     ELSE /\ calibration' =
                               [method |-> "reference",
                                factor |-> calculate_reference_calibration(
                                               d.value.width, d.value.height),
                                confidence |-> Rat(85, 100), unit |-> "cm/pixel",
                                reference |->
                                   [type |-> IF args.reference_object # "none"
                                             THEN args.reference_object
                                             ELSE "custom",
                                    width |-> d.value.width,
                                    height |-> d.value.height]]
                          /\ pc' = "process"
                          /\ UNCHANGED <<stdout, exit_code>>
    /\ UNCHANGED <<prog, args, method, tier, run, prev>>
    /\ UNCHANGED lib_vars

\* calculate_spatial_calibration gets as far as process_lidar_data
P_calls_bridge(a, bridge) ==
    /\ bridge = "yes"
    /\ a.camera_intrinsics = "none" \/ OpensAsJson(a.camera_intrinsics)
    /\ a.depth_map = "none" \/ OpensAsJson(a.depth_map)

P_Spatial ==
    /\ prog = "python" /\ pc = "calibrate"
    /\ ~(method = "direct" /\ Truthy(args.calibration_factor))
    /\ ~(method = "height" /\ Truthy(args.person_height))
    /\ method = "spatial"
    /\ IF args.camera_intrinsics # "none" /\ ~ParsesAsJson(args.camera_intrinsics)
       THEN P_Fail("JSONDecodeError") /\ UNCHANGED <<env, calibration, tier>>
       ELSE \E b \in Answers("bridge", YesNo, TRUE) :
            \E sl \in Answers("spatiallm", SpatialLMSources,
                              P_calls_bridge(args, b)) :
            \E ld \in Answers("image_loads", YesNo, P_calls_bridge(args, b)) :
            \E real \in Answers("real", RealOutcomes,
                                P_calls_bridge(args, b) /\ sl # "none") :
            \E draw \in MockDraws :
              /\ env' = [env EXCEPT !["bridge"] = b, !["image_loads"] = ld,
                                    !["spatiallm"] = sl, !["real"] = real]
              /\ LET r == P_calculate_spatial_calibration(
                              args.depth_map, "none", args.camera_intrinsics,
                              b, ld, sl, real, draw)
                 IN  /\ calibration' = r.cal
                     /\ tier' = r.tier
              /\ pc' = "process"
              /\ UNCHANGED <<stdout, exit_code>>
    /\ UNCHANGED <<prog, args, method, run, prev>>
    /\ UNCHANGED lib_vars

\* else: raise ValueError("Invalid or incomplete calibration method")
P_Incomplete ==
    /\ prog = "python" /\ pc = "calibrate"
    /\ ~(method = "direct" /\ Truthy(args.calibration_factor))
    /\ ~(method = "height" /\ Truthy(args.person_height))
    /\ method \notin {"reference", "spatial"}
    /\ P_Fail("Invalid or incomplete calibration method")
    /\ UNCHANGED <<prog, args, env, method, calibration, tier, run, prev>>
    /\ UNCHANGED lib_vars

\* process_image_with_calibration, then the result document is printed
P_process_image_with_calibration(c, loads) ==
    IF loads = "no" THEN Raise("Could not load image")
    ELSE IF c.method \in {"height", "reference"} /\ IsZero(c.factor)
    THEN Raise("ZeroDivisionError")
    ELSE Ok("measurements")

P_Process ==
    /\ prog = "python" /\ pc = "process"
    /\ \E ld \in YesNo :
         /\ Asks("image_loads", ld)
         /\ env' = [env EXCEPT !["image_loads"] = ld]
         /\ LET r == P_process_image_with_calibration(calibration, ld)
            IN  IF r.raised
                THEN P_Fail(r.error)
                ELSE /\ stdout' = Append(stdout, ResultDoc(calibration))
                     /\ exit_code' = 0
                     /\ pc' = "done"
    /\ UNCHANGED <<prog, args, method, calibration, tier, run, prev>>
    /\ UNCHANGED lib_vars

---------------------------------------------------------------------------
(* src/wrapper.py: the strategies *)

\* a variant that looks at the person height before the direct factor
determine_calibration_method_height_first(a) ==
    IF Truthy(a.person_height) THEN "height"
    ELSE IF Truthy(a.calibration_factor) THEN "direct"
    ELSE IF a.depth_map # "none" \/ a.point_cloud # "none" THEN "spatial"
    ELSE "reference"

determine_calibration_method(a) ==
    IF Truthy(a.calibration_factor) THEN "direct"
    ELSE IF Truthy(a.person_height) THEN "height"
    ELSE IF a.depth_map # "none" \/ a.point_cloud # "none" THEN "spatial"
    ELSE "reference"

detect_person_height_basic(loads, b) ==
    IF loads = "no" THEN Raise("Could not load image") ELSE Ok(BBoxOf(b))

\* the pose detector ran and nose and both ankles are visible
R_full_body(p, loads) ==
    /\ p.mediapipe /\ loads = "yes" /\ p.landmarks
    /\ p.nose_vis /\ p.right_vis /\ p.left_vis

detect_person_height(p, b, loads) ==
    IF R_full_body(p, loads)
    THEN Ok(RAbs(RSub(RDiv(RAdd(p.left_y, p.right_y), Whole(2)), p.nose_y)))
    ELSE detect_person_height_basic(loads, b)

\* The landmark height is a float and create_height_visualization hands
\* float coordinates to cv2.line; the contour height is an int.
\*   float_points: does the installed OpenCV take float coordinates
calculate_height_based_calibration(p, b, loads, float_points, person_height_cm) ==
    LET d == detect_person_height(p, b, loads)
    IN  IF d.raised
        THEN Raise("Height-based calibration failed: Could not load image")
        ELSE IF ~Truthy(d.value)
        THEN Raise("Height-based calibration failed: Could not detect full person in image")
        ELSE IF R_full_body(p, loads) /\ float_points = "no"
        THEN Raise("Height-based calibration failed: OpenCV rejects the float coordinates")
        ELSE Ok([type |-> "height_based", method |-> "height",
                 factor |-> HeightFactor(person_height_cm, d.value),
                 person_height_cm |-> person_height_cm,
                 person_height_pixels |-> d.value,
                 unit |-> "cm/pixel", visualization |-> "ndarray"])

\* the dimensions the reference branch of main() resolves
R_reference_dimensions(a) ==
    IF a.reference_object = "custom"
    THEN IF ~Truthy(a.ref_dims.width) \/ ~Truthy(a.ref_dims.height)
         THEN Raise("Custom reference object requires width and height parameters")
         ELSE Ok(a.ref_dims)
    ELSE IF a.reference_object = "a4_paper"
    THEN Ok([width |-> Rat(210, 10), height |-> Rat(297, 10)])
    ELSE IF a.reference_object = "letter"
    THEN Ok([width |-> Rat(2159, 100), height |-> Rat(2794, 100)])
    ELSE IF a.reference_object = "credit_card"
    THEN Ok([width |-> Rat(856, 100), height |-> Rat(5398, 1000)])
    ELSE Raise("Unknown reference object type")

calculate_reference_object_calibration(loads, ref_object_type, ref_width_cm, ref_height_cm) ==
    IF loads = "no" THEN Raise("Could not load image")
    ELSE LET ref_obj_width_px == RMul(Whole(ImageWidth), Rat(3, 10))
             ref_obj_height_px ==
                 RMul(ref_obj_width_px, RDiv(ref_height_cm, ref_width_cm))
             width_factor == RDiv(ref_width_cm, ref_obj_width_px)
             height_factor == RDiv(ref_height_cm, ref_obj_height_px)
         IN  Ok([type |-> "reference_object", method |-> "reference",
                 reference |-> ref_object_type,
                 width_cm |-> ref_width_cm, height_cm |-> ref_height_cm,
                 width_px |-> ref_obj_width_px, height_px |-> ref_obj_height_px,
                 factor |-> RDiv(RAdd(width_factor, height_factor), Whole(2)),
                 unit |-> "cm/pixel", visualization |-> "ndarray"])

\* try: import the bridge, process, visualise; except ImportError: the mock
R_calculate_spatial_calibration(depth_map_path, point_cloud_path, bridge, loads, sl, real, draw) ==
    IF bridge = "no"
    THEN IF loads = "no" THEN Raise("AttributeError")
         ELSE Ok([cal |-> SpatialResult(Rat(8, 100), Rat(95, 100))
                          @@ [is_mock |-> TRUE, visualization |-> "ndarray"],
                  tier |-> "wrapper_mock_import"])
    ELSE IF depth_map_path # "none" /\ ~OpensAsJson(depth_map_path)
    THEN Raise("depth map cannot be read")
    ELSE IF depth_map_path = "none" /\ point_cloud_path = "none"
    THEN Raise("Either depth map or point cloud data must be provided")
    ELSE LET dd == depth_map_path
             pp == IF depth_map_path # "none" THEN "none" ELSE point_cloud_path
             r == process_lidar_data(dd, pp, "none", loads, sl, real, draw)
         IN  IF r.raised THEN Raise(r.error)
             ELSE IF loads = "no" THEN Raise("AttributeError")
             ELSE Ok([cal |-> SpatialResult(r.value.calibration_factor,
                                            r.value.confidence)
                              @@ [visualization |-> "ndarray"],
                      tier |-> process_lidar_tier(dd, pp, "none", loads, sl, real)])

---------------------------------------------------------------------------
(* src/wrapper.py: main *)

\* print an error document and return 1
R_Fail(m) ==
    /\ stdout' = Append(stdout, ErrorDoc(m))
    /\ exit_code' = 1
    /\ pc' = "done"

\* the input file is checked and the calibration method determined
R_Start ==
    /\ prog = "root" /\ pc = "start"
    /\ \E ex \in YesNo :
         /\ Asks("image_exists", ex)
         /\ env' = [env EXCEPT !["image_exists"] = ex]
         /\ IF ex = "no"
            THEN R_Fail("Input file does not exist") /\ UNCHANGED method
            ELSE /\ pc' = "calibrate"
                 /\ method' = IF args.calibration_method # "none"
                              THEN args.calibration_method
                              ELSE determine_calibration_method(args)
                 /\ UNCHANGED <<stdout, exit_code>>
    /\ UNCHANGED <<prog, args, calibration, tier, run, prev>>
    /\ UNCHANGED lib_vars

R_Direct ==
    /\ prog = "root" /\ pc = "calibrate"
    /\ method = "direct" /\ Truthy(args.calibration_factor)
    /\ calibration' = [type |-> "direct", method |-> "direct",
                       factor |-> args.calibration_factor, unit |-> "cm/pixel"]
    /\ pc' = "emit"
    /\ UNCHANGED <<prog, args, env, method, tier, stdout, exit_code, run, prev>>
    /\ UNCHANGED lib_vars

R_Height ==
    /\ prog = "root" /\ pc = "calibrate"
    /\ ~(method = "direct" /\ Truthy(args.calibration_factor))
    /\ method = "height" /\ Truthy(args.person_height)
    /\ \E ld \in Answers("image_loads", YesNo, TRUE) :
       \E p \in Answers("pose", PoseNames, ld = "yes") :
       \E b \in Answers("bbox", BBoxNames,
                        ld = "yes" /\ ~R_full_body(PoseOf(p), ld)) :
       \E fp \in Answers("float_points", YesNo,
                         ld = "yes" /\ R_full_body(PoseOf(p), ld)) :
         /\ env' = [env EXCEPT !["image_loads"] = ld, !["pose"] = p,
                               !["bbox"] = b, !["float_points"] = fp]
         /\ LET r == calculate_height_based_calibration(
                         IF ld = "yes" THEN PoseOf(p) ELSE PoseOf("no_mediapipe"),
                         b, ld, fp, args.person_height)
            IN  IF r.raised
                THEN R_Fail(r.error) /\ UNCHANGED calibration
                ELSE /\ calibration' = r.value
                     /\ pc' = "emit"
                     /\ UNCHANGED <<stdout, exit_code>>
    /\ UNCHANGED <<prog, args, method, tier, run, prev>>
    /\ UNCHANGED lib_vars

\* calculate_spatial_calibration gets as far as process_lidar_data
R_calls_bridge(a, bridge) ==
    /\ bridge = "yes"
    /\ a.depth_map = "none" \/ OpensAsJson(a.depth_map)

R_Spatial ==
    /\ prog = "root" /\ pc = "calibrate"
    /\ ~(method = "direct" /\ Truthy(args.calibration_factor))
    /\ ~(method = "height" /\ Truthy(args.person_height))
    /\ method = "spatial"
    /\ \E t \in YesNo :
         /\ Asks("torch", t)
         /\ IF t = "no"
            THEN /\ env' = [env EXCEPT !["torch"] = t]
                 /\ R_Fail("Spatial calibration requires PyTorch and SpatialLM dependencies")
                 /\ UNCHANGED <<calibration, tier>>
            ELSE IF args.depth_map = "none" /\ args.point_cloud = "none"
            THEN /\ env' = [env EXCEPT !["torch"] = t]
                 /\ R_Fail("Spatial calibration requires depth map or point cloud data")
                 /\ UNCHANGED <<calibration, tier>>
            ELSE \E b \in Answers("bridge", YesNo, TRUE) :
                 \E sl \in Answers("spatiallm", SpatialLMSources,
                                   R_calls_bridge(args, b)) :
                 \E ld \in Answers("image_loads", YesNo,
                                   b = "no" \/ R_calls_bridge(args, b)) :
                 \E real \in Answers("real", RealOutcomes,
                                     R_calls_bridge(args, b) /\ sl # "none") :
                 \E draw \in MockDraws :
                   /\ env' = [env EXCEPT !["torch"] = t, !["bridge"] = b,
                                         !["image_loads"] = ld,
                                         !["spatiallm"] = sl, !["real"] = real]
                   /\ LET r == R_calculate_spatial_calibration(
                                   args.depth_map, args.point_cloud,
                                   b, ld, sl, real, draw)
                      IN  IF r.raised
                          THEN R_Fail(r.error) /\ UNCHANGED <<calibration, tier>>
                          ELSE /\ calibration' = r.value.cal
                               /\ tier' = r.value.tier
                               /\ pc' = "emit"
                               /\ UNCHANGED <<stdout, exit_code>>
    /\ UNCHANGED <<prog, args, method, run, prev>>
    /\ UNCHANGED lib_vars

R_Reference ==
    /\ prog = "root" /\ pc = "calibrate"
    /\ ~(method = "direct" /\ Truthy(args.calibration_factor))
    /\ ~(method = "height" /\ Truthy(args.person_height))
    /\ method = "reference"
    /\ LET d == R_reference_dimensions(args)
       IN  IF d.raised
           THEN R_Fail(d.error) /\ UNCHANGED <<env, calibration>>
           ELSE \E ld \in YesNo :
                  /\ Asks("image_loads", ld)
                  /\ env' = [env EXCEPT !["image_loads"] = ld]
                  /\ LET r == calculate_reference_object_calibration(
                                  ld, args.reference_object,
                                  d.value.width, d.value.height)
                     IN  IF r.raised
                         THEN R_Fail(r.error) /\ UNCHANGED calibration
                         ELSE /\ calibration' = r.value
                              /\ pc' = "emit"
                              /\ UNCHANGED <<stdout, exit_code>>
    /\ UNCHANGED <<prog, args, method, tier, run, prev>>
    /\ UNCHANGED lib_vars

\* else: "No valid calibration method provided"
R_NoValidMethod ==
    /\ prog = "root" /\ pc = "calibrate"
    /\ ~(method = "direct" /\ Truthy(args.calibration_factor))
    /\ ~(method = "height" /\ Truthy(args.person_height))
    /\ method \notin {"spatial", "reference"}
    /\ R_Fail("No valid calibration method provided")
    /\ UNCHANGED <<prog, args, env, method, calibration, tier, run, prev>>
    /\ UNCHANGED lib_vars

\* json.dumps raises TypeError on a numpy array
JsonSerializable(c) == "visualization" \notin DOMAIN c

\* the measurements are scaled and the result document is printed
R_Emit ==
    /\ prog = "root" /\ pc = "emit"
    /\ IF JsonSerializable(calibration)
       THEN /\ stdout' = Append(stdout, ResultDoc(calibration))
            /\ exit_code' = 0
            /\ pc' = "done"
       ELSE R_Fail("TypeError: Object of type ndarray is not JSON serializable")
    /\ UNCHANGED <<prog, args, env, method, calibration, tier, run, prev>>
    /\ UNCHANGED lib_vars

---------------------------------------------------------------------------
(* A further invocation with the same command line in the same world *)

Rerun ==
    /\ pc = "done" /\ run < MaxRuns
    /\ run' = run + 1
    /\ prev' = stdout
    /\ pc' = "start"
    /\ method' = "none"
    /\ calibration' = NoCalibration
    /\ tier' = "none"
    /\ stdout' = <<>>
    /\ exit_code' = -1
    /\ UNCHANGED <<prog, args, env>>
    /\ UNCHANGED lib_vars

Next ==
    \/ P_Start \/ P_Direct \/ P_Height \/ P_Reference \/ P_Spatial
    \/ P_Incomplete \/ P_Process
    \/ R_Start \/ R_Direct \/ R_Height \/ R_Spatial \/ R_Reference
    \/ R_NoValidMethod \/ R_Emit
    \/ Rerun

Spec == Init /\ [][Next]_vars

---------------------------------------------------------------------------
(* Vocabulary of the properties *)

Done == pc = "done"

\* the input file exists and main() has read the request
Serving == pc # "start" /\ env["image_exists"] = "yes"

Supplied(r) == Truthy(r)

\* spatial results not computed by the real SpatialLM pipeline
FallbackTiers == {"wrapper_mock_unavailable", "wrapper_mock_after_error",
                  "wrapper_mock_import", "bridge_mock_unavailable",
                  "bridge_mock_after_error"}

\* direct > height > spatial > reference over the inputs that are supplied
Precedence(a) ==
    CASE Supplied(a.calibration_factor) -> "direct"
      [] ~Supplied(a.calibration_factor) /\ Supplied(a.person_height) -> "height"
      [] ~Supplied(a.calibration_factor) /\ ~Supplied(a.person_height)
         /\ (a.depth_map # "none" \/ a.point_cloud # "none") -> "spatial"
      [] OTHER -> "reference"

---------------------------------------------------------------------------
(* C1..C10 *)

\* C1: a request whose method is spatial, with an existing and decodable
\* image, ends with a calibration result of method "spatial" and never with
\* an error document, whatever the spatial inputs and whatever fails in the
\* spatial collaborator.
C1_SpatialNeverHardFails ==
    (Done /\ method = "spatial" /\ env["image_loads"] # "no")
        => /\ ~PrintedError
           /\ \E c \in Results : c.method = "spatial"

\* C2: every spatial result produced while the spatial collaborator was
\* unavailable or had raised has factor exactly 0.05 and a confidence within
\* 0.7 .. 0.8.
C2_FallbackFactorAndConfidence ==
    \A c \in Results :
        (c.method = "spatial" /\ tier \in FallbackTiers)
            => /\ c.factor = Rat(5, 100)
               /\ RLe(Rat(7, 10), c.confidence)
               /\ RLe(c.confidence, Rat(8, 10))

Selected(a) ==
    IF a.calibration_method # "none" THEN a.calibration_method ELSE Precedence(a)

NoCalibrationInputs(a) ==
    /\ IsNone(a.calibration_factor) /\ IsNone(a.person_height)
    /\ a.depth_map = "none" /\ a.point_cloud = "none"
    /\ a.reference_object = "none"
    /\ IsNone(a.ref_dims.width) /\ IsNone(a.ref_dims.height)

\* C4: a request without any calibration input ends with an error document
\* and no result document.
C4_NoInputsFails ==
    (Done /\ NoCalibrationInputs(args)) => (PrintedError /\ Results = {})

\* a failure of the direct, height or reference strategy, told from the
\* request and from what the environment answered
MissingParameter ==
    \/ method = "direct" /\ ~Supplied(args.calibration_factor)
    \/ method = "height" /\ ~Supplied(args.person_height)
    \/ /\ method = "reference" /\ prog = "python"
       /\ args.reference_object = "none"
       /\ ~(Supplied(args.ref_dims.width) /\ Supplied(args.ref_dims.height))
    \/ /\ method = "reference" /\ prog = "root"
       /\ args.reference_object = "custom"
       /\ ~(Supplied(args.ref_dims.width) /\ Supplied(args.ref_dims.height))

UnknownReferenceObject ==
    /\ method = "reference"
    /\ \/ prog = "python" /\ args.reference_object = "custom"
       \/ prog = "root" /\ args.reference_object = "none"

PersonNotDetected ==
    /\ method = "height" /\ Supplied(args.person_height)
    /\ env["pose"] \in {"no_mediapipe", "no_landmarks", "no_ankles"}
    /\ env["bbox"] = "none"

UnreadableImage ==
    /\ method \in {"height", "reference"}
    /\ env["image_loads"] = "no"

StrategyFailure ==
    MissingParameter \/ UnknownReferenceObject \/ PersonNotDetected \/ UnreadableImage

\* C5: a failure of the height, reference or direct strategy (person not
\* detected, unknown reference object, unreadable image, missing required
\* parameter) ends the request with an error document, exit status 1 and no
\* result document of any method.
C5_StrategyFailurePropagates ==
    (Done /\ Serving /\ StrategyFailure)
        => (PrintedError /\ Results = {} /\ exit_code = 1)

C5_Witness ==
    /\ Done /\ prog = "python" /\ PersonNotDetected
    /\ PrintedError /\ Results = {}

\* C6: every spatial result that a fallback tier produced carries a marker
\* of that in its mapping.
C6_FallbackIsMarked ==
    \A c \in Results :
        (c.method = "spatial" /\ tier \in FallbackTiers)
            => ("is_fallback" \in DOMAIN c \/ "is_mock" \in DOMAIN c)

\* C7: every emitted calibration result has factor > 0, a confidence within
\* [0, 1] and unit "cm/pixel".
C7_ResultWellFormed ==
    \A c \in Results :
        /\ RLt(Whole(0), c.factor)
        /\ "confidence" \in DOMAIN c
        /\ RLe(Whole(0), c.confidence) /\ RLe(c.confidence, Whole(1))
        /\ c.unit = "cm/pixel"

\* the fixed confidence of the direct, height and reference strategies
FixedConfidence(m) ==
    CASE m = "direct" -> Whole(1)
      [] m = "height" -> Rat(9, 10)
      [] m = "reference" -> Rat(85, 100)

\* C8: every emitted direct, height or reference result has a confidence
\* key, holding 1.0, 0.9 and 0.85 respectively.
C8_FixedConfidence ==
    \A c \in Results :
        c.method \in {"direct", "height", "reference"}
            => ("confidence" \in DOMAIN c /\ c.confidence = FixedConfidence(c.method))

\* C9: a second invocation with the same command line in the same
\* environment prints the same calibration results as the first.
C9_SameInputsSameResult ==
    (Done /\ run > 1) => ResultsOf(prev) = Results

\* number of multiples of the person height compared for linearity
MaxScale == 3

\* the pixel height the height strategy divided by
DetectedHeightPx ==
    IF prog = "root" THEN calibration.person_height_pixels
    ELSE P_person_height_px(PoseOf(env["pose"]), env["bbox"])

\* C10: the height strategy returns factor = height_cm / height_px for the
\* detected pixel height (175 cm over 500 px gives 0.35), and for that pixel
\* height k times the person height gives k times the factor.
C10_HeightFactor ==
    /\ HeightFactor(Whole(175), Whole(500)) = Rat(35, 100)
    /\ calibration.method = "height"
         => /\ RMul(calibration.factor, DetectedHeightPx) = args.person_height
            /\ \A k \in 1..MaxScale :
                 HeightFactor(RMul(Whole(k), args.person_height), DetectedHeightPx)
                     = RMul(Whole(k), calibration.factor)

C10_Witness ==
    /\ calibration.method = "height"
    /\ args.person_height = Whole(175)
    /\ DetectedHeightPx = Whole(500)
    /\ calibration.factor = Rat(7, 20)

---------------------------------------------------------------------------
(* C11..C12: the height and reference strategies under Spec *)

\* the pixel height the detectors hand to the height strategy (None when
\* neither detector sees a person)
PixelHeight ==
    IF prog = "python"
    THEN P_person_height_px(PoseOf(env["pose"]), env["bbox"])
    ELSE detect_person_height(PoseOf(env["pose"]), env["bbox"], "yes").value

\* the detectors ran on a decoded image and gave no height to divide by
NoUsablePixelHeight ==
    /\ method = "height" /\ Supplied(args.person_height)
    /\ env["image_loads"] = "yes"
    /\ ~Truthy(PixelHeight)

PersonNotDetectedErrors ==
    {"Could not detect person in the image",
     "Height-based calibration failed: Could not detect full person in image"}

\* C11: whenever the detectors give no usable pixel height, the height
\* strategy ends with a person-not-detected error: no division is attempted
\* (no arithmetic error is reported) and no height result is emitted.
C11_NoPixelHeightFails ==
    (Done /\ Serving /\ NoUsablePixelHeight)
        => /\ PrintedError /\ Results = {}
           /\ \A i \in DOMAIN stdout :
                stdout[i].kind = "error" => stdout[i].error \in PersonNotDetectedErrors

\* both custom dimensions are on the command line
CustomDimensions ==
    Supplied(args.ref_dims.width) /\ Supplied(args.ref_dims.height)

UnknownReferenceErrors ==
    {"Unknown reference object", "Unknown reference object type"}

\* C12: the reference strategy takes its dimensions from the table for a
\* table name or from the custom width and height; it fails with an
\* unknown-reference-object error for a name outside the table without
\* custom dimensions, and never for that reason when custom width and
\* height are supplied.
C12_ReferenceDimensions ==
    (Done /\ Serving /\ method = "reference")
        => /\ (UnknownReferenceObject /\ ~CustomDimensions)
                => \E i \in DOMAIN stdout :
                     /\ stdout[i].kind = "error"
                     /\ stdout[i].error \in UnknownReferenceErrors
           /\ CustomDimensions
                => \A i \in DOMAIN stdout :
                     stdout[i].kind = "error"
                        => stdout[i].error \notin UnknownReferenceErrors

---------------------------------------------------------------------------
(* src/python/spatiallm_bridge.py: the point-cloud builder.                *)
(* Depth samples are whole numbers, a depth map is a sequence of rows, and *)
(* depth data is the mapping read from the device's JSON.                  *)

MaxDepth == 2
MaxSamples == 4
MaxWidth == 3
MaxHeight == 2

DepthSamples == -1..MaxDepth
SampleArrays == UNION {[1..n -> DepthSamples] : n \in 0..MaxSamples}

\* the flattened format; a width of -1 is numpy's "infer this dimension"
FlatDepthData ==
    {[width |-> w, height |-> h, data |-> d] :
        w \in {-1} \cup 1..MaxWidth, h \in 1..MaxHeight, d \in SampleArrays}

\* the 2-D format (rectangular, ragged, and with unused declared
\* dimensions beside it) and a mapping of neither format
OtherDepthData ==
    {[depth_map |-> <<<<1, 0>>, <<-1, 2>>>>],
     [depth_map |-> <<<<1, 2>>, <<1>>>>],
     [depth_map |-> <<<<2, 1>>>>, width |-> 2, height |-> 2, data |-> <<2, 1>>],
     [width |-> 2, height |-> 2]}

DepthData == FlatDepthData \cup OtherDepthData

\* what cv2.imread(image_path) gives: image_path is None, names a file
\* that does not decode, or names an image of rows x cols pixels
NoImage == [path |-> "none", rows |-> 0, cols |-> 0]
ImageFiles ==
    {NoImage, [path |-> "unreadable", rows |-> 0, cols |-> 0],
     [path |-> "ok", rows |-> 1, cols |-> 1],
     [path |-> "ok", rows |-> 2, cols |-> 2]}

\* camera_intrinsics: absent (or {}), with all four keys, or without "fy"
CameraIntrinsics == {"none", "full", "partial"}

\* np.array(data).reshape(height, width)
reshape(data, height, width) ==
    LET n == Len(data)
        h == IF height = -1 /\ width > 0 /\ n % width = 0
             THEN n \div width ELSE height
        w == IF width = -1 /\ height > 0 /\ n % height = 0
             THEN n \div height ELSE width
    IN  IF h < 0 \/ w < 0 \/ h * w # n
        THEN Raise("cannot reshape array")
        ELSE Ok([v \in 1..h |-> [u \in 1..w |-> data[(v - 1) * w + u]]])

convert_depth_data_to_depth_map(depth_data) ==
    IF "depth_map" \in DOMAIN depth_data
    THEN Ok(depth_data.depth_map)
    ELSE IF {"width", "height", "data"} \subseteq DOMAIN depth_data
    THEN reshape(depth_data.data, depth_data.height, depth_data.width)
    ELSE Raise("Unsupported depth data format")

\* depth_map.shape has two entries
IsMatrix(depth_map) ==
    \A v \in DOMAIN depth_map : Len(depth_map[v]) = Len(depth_map[1])

\* fx, fy, cx, cy as the builder resolves them
resolve_intrinsics(camera_intrinsics, width, height) ==
    IF camera_intrinsics = "none"
    THEN [fx |-> Rat(8 * width, 10), fy |-> Rat(8 * width, 10),
          cx |-> Rat(width, 2), cy |-> Rat(height, 2)]
    ELSE [fx |-> Whole(2), fy |-> IF camera_intrinsics = "full" THEN Whole(2) ELSE None,
          cx |-> Whole(1), cy |-> Whole(1)]

DefaultGray == <<128, 128, 128>>

\* the (b, g, r) the decoded image holds at row v, column u
ImagePixel(v, u) == <<10 + u, 20 + v, 200>>

\* a variant that also keeps samples of depth 0
valid_depth_nonnegative(depth) == depth >= 0

\* if depth > 0
valid_depth(depth) == depth > 0

\* one pass of the loop body for pixel (u, v)
visit_pixel(depth_map, img, K, v, u) ==
    LET depth == depth_map[v + 1][u + 1]
    IN  IF ~valid_depth(depth) THEN <<>>
        ELSE <<[pixel |-> <<u, v>>,
                point |-> IF IsNone(K.fy) THEN <<None, None, Whole(depth)>>
                          ELSE <<RDiv(RMul(RSub(Whole(u), K.cx), Whole(depth)), K.fx),
                                 RDiv(RMul(RSub(Whole(v), K.cy), Whole(depth)), K.fy),
                                 Whole(depth)>>,
                color |-> IF u < img.cols /\ v < img.rows
                          THEN <<ImagePixel(v, u)[3], ImagePixel(v, u)[2],
                                 ImagePixel(v, u)[1]>>
                          ELSE DefaultGray]>>

RECURSIVE scan_row(_, _, _, _, _)
\* for u in range(width), from column u on
scan_row(depth_map, img, K, v, u) ==
    IF u >= Len(depth_map[v + 1]) THEN <<>>
    ELSE visit_pixel(depth_map, img, K, v, u) \o scan_row(depth_map, img, K, v, u + 1)

RECURSIVE scan_rows(_, _, _, _)
\* for v in range(height), from row v on
scan_rows(depth_map, img, K, v) ==
    IF v >= Len(depth_map) THEN <<>>
    ELSE scan_row(depth_map, img, K, v, 0) \o scan_rows(depth_map, img, K, v + 1)

\* the PLY file: the vertex count of the header and one record per
\* zip(points, colors)
write_ply(found) ==
    [vertex_count |-> Len(found),
     records |-> [k \in DOMAIN found |-> found[k].point \o found[k].color]]

create_point_cloud_from_depth(depth_data, img, camera_intrinsics) ==
    LET c == convert_depth_data_to_depth_map(depth_data)
    IN  IF c.raised THEN c
        ELSE IF img.path # "ok" THEN Raise("Could not load image")
        ELSE IF ~IsMatrix(c.value) THEN Raise("not enough values to unpack")
        ELSE LET height == Len(c.value)
                 width == IF height = 0 THEN 0 ELSE Len(c.value[1])
                 K == resolve_intrinsics(camera_intrinsics, width, height)
                 found == scan_rows(c.value, img, K, 0)
             IN  IF IsNone(K.fy) /\ found # <<>>
                 THEN Raise("unsupported operand type")
                 ELSE Ok([pixels |-> [k \in DOMAIN found |-> found[k].pixel],
                          points |-> [k \in DOMAIN found |-> found[k].point],
                          colors |-> [k \in DOMAIN found |-> found[k].color],
                          ply |-> write_ply(found)])

\* tempfile.NamedTemporaryFile(suffix='.ply', delete=False): the file a
\* completed construction has written stays on disk
files_left(built) == IF built.raised THEN 0 ELSE 1

\* temp_ply = create_point_cloud_from_depth(lidar_data, None)
handle_lidar_data_from_device(data) ==
    create_point_cloud_from_depth(data, NoImage, "none")

\* the wrappers are not running
MainIdle ==
    /\ prog = "library" /\ args = NotCalled
    /\ env = [f \in EnvFields |-> Unknown]
    /\ pc = "done" /\ method = "none" /\ calibration = NoCalibration
    /\ tier = "none" /\ stdout = <<>> /\ exit_code = -1
    /\ run = 1 /\ prev = <<>>

CloudInit ==
    /\ MainIdle
    /\ lidar_data \in DepthData
    /\ image_file \in ImageFiles
    /\ intrinsics \in CameraIntrinsics
    /\ image_file.path = "none" => intrinsics = "none"
    /\ cloud = NotCalled /\ temp_files = 0
    /\ LayoutIdle /\ BridgeIdle

\* real_spatiallm_processing builds the cloud with the request's image
CreatePointCloud ==
    /\ cloud = NotCalled /\ image_file.path # "none"
    /\ cloud' = [called |-> "create_point_cloud_from_depth",
                 outcome |-> create_point_cloud_from_depth(lidar_data, image_file,
                                                           intrinsics)]
    /\ temp_files' = temp_files + files_left(cloud'.outcome)
    /\ UNCHANGED <<main_vars, lidar_data, image_file, intrinsics, layout_vars, bridge_vars>>

\* the device entry point builds the cloud without an image
HandleLidarData ==
    /\ cloud = NotCalled /\ image_file.path = "none"
    /\ cloud' = [called |-> "handle_lidar_data_from_device",
                 outcome |-> handle_lidar_data_from_device(lidar_data)]
    /\ temp_files' = temp_files + files_left(cloud'.outcome)
    /\ UNCHANGED <<main_vars, lidar_data, image_file, intrinsics, layout_vars, bridge_vars>>

CloudNext == CreatePointCloud \/ HandleLidarData

CloudSpec == CloudInit /\ [][CloudNext]_vars

---------------------------------------------------------------------------
(* C13..C15: the point-cloud builder under CloudSpec *)

CloudBuilt == cloud # NotCalled /\ ~cloud.outcome.raised
CloudFailed == cloud # NotCalled /\ cloud.outcome.raised

\* the flattened format declares its dimensions
DeclaresDimensions(d) == {"width", "height", "data"} \subseteq DOMAIN d

RECURSIVE Concat(_)
Concat(rows) == IF rows = <<>> THEN <<>> ELSE Head(rows) \o Concat(Tail(rows))

\* the samples of the depth data, flattened row by row
SamplesOf(d) == IF DeclaresDimensions(d) THEN d.data ELSE Concat(d.depth_map)

WidthOf(d) == IF DeclaresDimensions(d) THEN d.width ELSE Len(d.depth_map[1])
HeightOf(d) == IF DeclaresDimensions(d) THEN d.height ELSE Len(d.depth_map)

\* a depth map whose sample count equals width * height
ValidDepthMap(d) ==
    /\ DeclaresDimensions(d) \/ ("depth_map" \in DOMAIN d /\ IsMatrix(d.depth_map))
    /\ WidthOf(d) > 0 /\ HeightOf(d) > 0
    /\ Len(SamplesOf(d)) = WidthOf(d) * HeightOf(d)

\* indices of the strictly positive samples, ascending
PositiveIndices(d) ==
    SelectSeq([i \in 1..Len(SamplesOf(d)) |-> i], LAMBDA i : SamplesOf(d)[i] > 0)

\* C13: for a depth map whose sample count equals width*height, the built
\* cloud is the subsequence of the pixels with a strictly positive sample in
\* row-major order (index i of the flattened samples is pixel u = i mod
\* width, v = i div width): one point per positive sample and none for a
\* sample <= 0, each with z equal to its sample, in the same order in the
\* exported records, whose header counts them.
C13_PointCloudRowMajor ==
    (CloudBuilt /\ ValidDepthMap(lidar_data))
        => LET idx == PositiveIndices(lidar_data)
               out == cloud.outcome.value
           IN  /\ Len(out.points) = Len(idx)
               /\ \A k \in DOMAIN idx :
                    /\ out.pixels[k] = <<(idx[k] - 1) % WidthOf(lidar_data),
                                         (idx[k] - 1) \div WidthOf(lidar_data)>>
                    /\ out.points[k][3] = Whole(SamplesOf(lidar_data)[idx[k]])
                    /\ SubSeq(out.ply.records[k], 1, 3) = out.points[k]
               /\ out.ply.vertex_count = Len(idx)
               /\ Len(out.ply.records) = Len(idx)

\* a 2 x 2 map with a dropped sample between kept ones has been built
C13_Witness ==
    /\ CloudBuilt /\ ValidDepthMap(lidar_data)
    /\ WidthOf(lidar_data) = 2 /\ HeightOf(lidar_data) = 2
    /\ SamplesOf(lidar_data) = <<1, 0, 2, 1>>
    /\ cloud.outcome.value.pixels = <<<<0, 0>>, <<0, 1>>, <<1, 1>>>>

\* the declared dimensions do not account for the samples
SampleCountDiffers(d) ==
    DeclaresDimensions(d) /\ Len(d.data) # d.width * d.height

\* C14: whenever the number of depth samples differs from width*height the
\* construction fails and no point cloud is produced.
C14_SampleCountChecked ==
    (cloud # NotCalled /\ SampleCountDiffers(lidar_data)) => CloudFailed

\* C15: without a colour image the builder still produces the cloud, every
\* point default gray; with an image a point at (u, v) takes the image's
\* colour when (u, v) is inside the image and default gray otherwise.
C15_ImageOptional ==
    (cloud # NotCalled /\ ValidDepthMap(lidar_data) /\ intrinsics # "partial")
        => /\ image_file.path = "none"
                => /\ CloudBuilt
                   /\ \A k \in DOMAIN cloud.outcome.value.colors :
                        cloud.outcome.value.colors[k] = DefaultGray
           /\ image_file.path = "ok"
                => /\ CloudBuilt
                   /\ \A k \in DOMAIN cloud.outcome.value.colors :
                        LET u == cloud.outcome.value.pixels[k][1]
                            v == cloud.outcome.value.pixels[k][2]
                        IN  cloud.outcome.value.colors[k] =
                              IF u < image_file.cols /\ v < image_file.rows
                              THEN <<ImagePixel(v, u)[3], ImagePixel(v, u)[2],
                                     ImagePixel(v, u)[1]>>
                              ELSE DefaultGray

---------------------------------------------------------------------------
(* The layout parser and the aggregator called on their own *)

MaxLines == 2
MaxObjects == 2
MaxWalls == 2

WallLines ==
    {<<"WALL", "0", "0", "0", "1", "0", "0">>,
     <<"WALL", "0", "0", "0", "1", "0", "0", "0">>,
     <<"WALL", "0", "0", "0", "3", "4", "0", "0">>,
     <<"WALL", "0", "0", "0", "0", "0", "2.5", "0">>,
     <<"WALL", "1", "1", "1", "1", "1", "1", "0">>,
     <<"WALL", "0", "0", "0", "long", "0", "0", "0">>,
     <<"WALL", "0", "0", "0", "1", "0", "0", "north">>,
     <<"WALL", "long", "0">>,
     <<"WALLS", "0", "0", "0", "1", "0", "0", "0">>}

ObjectLines ==
    {<<"OBJECT", "door", "0", "0", "0", "0.9", "0.5", "2.1", "0", "0", "0", "0.95">>,
     <<"OBJECT", "door", "0", "0", "0", "0.9", "0.5", "2.1", "0", "0", "1", "0.95">>,
     <<"OBJECT", "door", "0", "0", "0", "0.9", "0.5", "2.1", "0", "0", "-1", "0.95">>,
     <<"OBJECT", "door", "0", "0", "0", "0.9", "0.5", "2.1", "0", "0", "0.5">>,
     <<"OBJECT", "door", "0", "0", "0", "0.9", "0.5", "2.1", "0", "0">>,
     <<"OBJECT", "Door", "0", "0", "0", "0.9", "0.5", "2.1", "0", "0", "1", "0.95">>,
     <<"OBJECT", "lamp", "0", "0", "0", "1", "1", "1", "0", "0", "1", "0.9">>,
     <<"OBJECT", "door", "0", "0", "0", "0.9", "wide", "2.1", "0", "0", "1", "0.95">>,
     <<"OBJECT", "door", "0", "0", "0", "0.9", "0.5", "2.1", "0", "0", "1", "high">>}

OtherLines == {<<>>, <<"NOTE", "door", "0">>}

LayoutLines == WallLines \cup ObjectLines \cup OtherLines

\* layout_text.strip().split('\n') always yields at least one line
LayoutTexts == UNION {[1..n -> LayoutLines] : n \in 1..MaxLines}

DetectedObject(type, width, height, confidence) ==
    [type |-> type, width |-> width, height |-> height, length |-> Whole(100),
     confidence |-> confidence]

ObjectSamples ==
    {DetectedObject("door", Whole(45), Whole(105), Whole(1)),
     DetectedObject("door", Whole(30), Whole(105), Rat(1, 2)),
     DetectedObject("chair", Whole(90), Whole(85), Rat(9, 10)),
     DetectedObject("door", Whole(0), Whole(105), Whole(1)),
     DetectedObject("door", Whole(0), Whole(-5), Whole(1)),
     DetectedObject("door", Whole(45), Whole(105), Whole(0)),
     DetectedObject("door", Whole(45), Whole(105), Whole(-1)),
     DetectedObject("lamp", Whole(45), Whole(105), Whole(1))}

WallSamples ==
    {[length |-> Whole(0)], [length |-> Whole(1)], [length |-> Rat(5, 2)],
     [length |-> Whole(5)]}

Scenes ==
    {[objects |-> o, walls |-> w] :
        o \in UNION {[1..n -> ObjectSamples] : n \in 0..MaxObjects},
        w \in UNION {[1..n -> WallSamples] : n \in 0..MaxWalls}}

LayoutInit ==
    /\ MainIdle /\ CloudIdle /\ BridgeIdle
    /\ \/ layout_text \in LayoutTexts /\ scene = NotCalled
       \/ layout_text = <<>> /\ scene \in Scenes
    /\ layout = NotCalled /\ aggregate = NotCalled

\* extract_calibration_from_layout(layout_text, point_cloud)
ExtractCalibrationFromLayout ==
    /\ layout_text # <<>> /\ layout = NotCalled
    /\ layout' = [called |-> "extract_calibration_from_layout",
                  outcome |-> extract_calibration_from_layout(layout_text)]
    /\ UNCHANGED <<main_vars, cloud_vars, bridge_vars, layout_text, scene, aggregate>>

\* calculate_calibration_from_objects(objects, walls)
CalculateCalibrationFromObjects ==
    /\ scene # NotCalled /\ aggregate = NotCalled
    /\ aggregate' = [called |-> "calculate_calibration_from_objects",
                     factor |-> calculate_calibration_from_objects(scene.objects,
                                                                   scene.walls)]
    /\ UNCHANGED <<main_vars, cloud_vars, bridge_vars, layout_text, layout, scene>>

LayoutNext == ExtractCalibrationFromLayout \/ CalculateCalibrationFromObjects

LayoutSpec == LayoutInit /\ [][LayoutNext]_vars

---------------------------------------------------------------------------
(* C16..C20: the layout parser and the aggregator under LayoutSpec *)

Parsed == layout # NotCalled /\ ~layout.outcome.raised
Aggregated == aggregate # NotCalled

IsNumeric(token) == token \in DOMAIN NumericLiterals
ValueOf(token) == NumericLiterals[token]

\* the grammar's wall directive: the token WALL and at least 6 numeric
\* fields x1 y1 z1 x2 y2 z2
WallDirective(line) ==
    /\ Len(line) >= 7 /\ line[1] = "WALL"
    /\ \A i \in 2..7 : IsNumeric(line[i])

\* || P2 - P1 ||
WallLength(line) ==
    sqrt(RAdd(RAdd(Square(RSub(ValueOf(line[5]), ValueOf(line[2]))),
                   Square(RSub(ValueOf(line[6]), ValueOf(line[3])))),
              Square(RSub(ValueOf(line[7]), ValueOf(line[4])))))

WallPrefixed(line) == line # <<>> /\ line[1] \in {"WALL", "WALLS"}
ObjectPrefixed(line) == line # <<>> /\ line[1] = "OBJECT"

\* C16: every line made of the token WALL and at least 6 numeric fields
\* yields exactly one wall, of the Euclidean length between its endpoints
\* (here for texts whose WALL lines are all such lines: the walls are those
\* lines' lengths, in order); "WALL 0 0 0 1 0 0" gives one wall of length 1.
C16_WallLineYieldsWall ==
    (Parsed /\ \A i \in DOMAIN layout_text :
                  WallPrefixed(layout_text[i]) => WallDirective(layout_text[i]))
        => LET directives == SelectSeq(layout_text, WallDirective)
           IN  layout.outcome.value.walls =
                   [k \in DOMAIN directives |-> [length |-> WallLength(directives[k])]]

\* the grammar's object directive: OBJECT label x y z length width height
\* theta phi psi [confidence]
ObjectDirective(line) ==
    /\ Len(line) >= 11 /\ line[1] = "OBJECT"
    /\ \A i \in 3..11 : IsNumeric(line[i])
    /\ Len(line) >= 12 => IsNumeric(line[12])

ObjectOf(line) ==
    [type |-> line[2],
     width |-> RMul(ValueOf(line[7]), Whole(100)),
     height |-> RMul(ValueOf(line[8]), Whole(100)),
     length |-> RMul(ValueOf(line[6]), Whole(100)),
     confidence |-> IF Len(line) >= 12 THEN ValueOf(line[12]) ELSE Rat(9, 10)]

\* C17: every OBJECT line with label and nine numeric fields yields exactly
\* one object whose width, height and length are the source values times
\* 100 and whose confidence is the field after psi when present and 0.9
\* otherwise (here for texts whose OBJECT lines are all such lines);
\* "OBJECT door 0 0 0 0.9 0.5 2.1 0 0 0 0.95" gives width 50, confidence 0.95.
C17_ObjectLineYieldsObject ==
    (Parsed /\ \A i \in DOMAIN layout_text :
                  ObjectPrefixed(layout_text[i]) => ObjectDirective(layout_text[i]))
        => LET directives == SelectSeq(layout_text, ObjectDirective)
           IN  layout.outcome.value.objects =
                   [k \in DOMAIN directives |-> ObjectOf(directives[k])]

\* a line the grammar accepts
WellFormed(line) == WallDirective(line) \/ ObjectDirective(line)

\* C18: parsing a non-empty text never raises, whatever the lines hold
\* (unknown prefix, too few fields, non-numeric tokens in numeric
\* positions), and the lines that are not well formed contribute no wall
\* and no object.
C18_ParsingNeverFails ==
    layout # NotCalled
        => /\ ~layout.outcome.raised
           /\ Len(layout.outcome.value.walls)
                <= Len(SelectSeq(layout_text, WallDirective))
           /\ Len(layout.outcome.value.objects)
                <= Len(SelectSeq(layout_text, ObjectDirective))

\* the object is of a type of the standard table
Recognized(obj) == lower(obj.type) \in DOMAIN standard_dimensions

\* the object's valid width ratio and valid height ratio (0 when it has none)
WidthRatio(obj) ==
    IF Recognized(obj) /\ obj.width[1] > 0
    THEN RDiv(Whole(standard_dimensions[lower(obj.type)].width), obj.width)
    ELSE Whole(0)

HeightRatio(obj) ==
    IF Recognized(obj) /\ obj.height[1] > 0
    THEN RDiv(Whole(standard_dimensions[lower(obj.type)].height), obj.height)
    ELSE Whole(0)

\* how many valid ratios the object has
ValidRatios(obj) ==
    (IF WidthRatio(obj)[1] > 0 THEN 1 ELSE 0) + (IF HeightRatio(obj)[1] > 0 THEN 1 ELSE 0)

\* sum(ratio * weight) and sum(weight) over all valid ratios
WeightedSum(objects) ==
    sum([i \in DOMAIN objects |->
            RMul(objects[i].confidence,
                 RAdd(WidthRatio(objects[i]), HeightRatio(objects[i])))])

TotalWeight(objects) ==
    sum([i \in DOMAIN objects |->
            RMul(objects[i].confidence, Whole(ValidRatios(objects[i])))])

HasValidRatio(objects) == \E i \in DOMAIN objects : ValidRatios(objects[i]) > 0

OneDoor == <<DetectedObject("door", Whole(45), Whole(105), Whole(1))>>

\* C19 as stated: with at least one valid ratio the aggregator returns
\* sum(ratio*weight)/sum(weight), and one door of width 45, height 105 and
\* confidence 1.0 gives 3.0.
C19_WeightedMeanDoorThree ==
    Aggregated
        => /\ HasValidRatio(scene.objects)
                => /\ ~IsZero(TotalWeight(scene.objects))
                   /\ aggregate.factor = RDiv(WeightedSum(scene.objects),
                                              TotalWeight(scene.objects))
           /\ scene.objects = OneDoor => aggregate.factor = Whole(3)

\* C19 as the code has it: with at least one valid ratio and weights that
\* sum to more than zero the aggregator returns sum(ratio*weight)/sum(weight);
\* with weights that sum to zero or less it returns 0.1; one door of width
\* 45, height 105 and confidence 1.0 gives (90/45 + 210/105)/2 = 2.0.
C19_WeightedMeanPositiveWeight ==
    Aggregated
        => /\ (HasValidRatio(scene.objects)
                 /\ RLt(Whole(0), TotalWeight(scene.objects)))
                => aggregate.factor = RDiv(WeightedSum(scene.objects),
                                           TotalWeight(scene.objects))
           /\ (HasValidRatio(scene.objects)
                 /\ ~RLt(Whole(0), TotalWeight(scene.objects)))
                => aggregate.factor = Rat(1, 10)
           /\ scene.objects = OneDoor => aggregate.factor = Whole(2)

\* a door and a chair of different confidence have been averaged
C19_Witness ==
    /\ Aggregated
    /\ scene.objects = <<DetectedObject("door", Whole(45), Whole(105), Whole(1)),
                         DetectedObject("chair", Whole(90), Whole(85), Rat(9, 10))>>
    /\ aggregate.factor = Rat(107, 76)

MeanWallLength(walls) ==
    RDiv(sum([i \in DOMAIN walls |-> walls[i].length]), Whole(Len(walls)))

\* C20: if a recognized object yields a valid ratio the walls are ignored
\* (the factor is the one the objects give without any wall); if none does
\* and there are walls the factor is 250 / (mean wall length * 100), which
\* is infinite for a mean of 0, also when unrecognized objects are present;
\* one wall of length 2.5 gives 1.0.
C20_WallsOnlyWithoutRatios ==
    Aggregated
        => /\ HasValidRatio(scene.objects)
                => aggregate.factor =
                       calculate_calibration_from_objects(scene.objects, <<>>)
           /\ (~HasValidRatio(scene.objects) /\ scene.walls # <<>>)
                => aggregate.factor =
                       IF IsZero(MeanWallLength(scene.walls)) THEN Infinity
                       ELSE RDiv(Whole(250),
                                 RMul(MeanWallLength(scene.walls), Whole(100)))
           /\ (~HasValidRatio(scene.objects) /\ scene.walls = <<[length |-> Rat(5, 2)]>>)
                => aggregate.factor = Whole(1)

\* an unrecognized object beside one wall of length 2.5
C20_Witness ==
    /\ Aggregated
    /\ scene.objects = <<DetectedObject("lamp", Whole(45), Whole(105), Whole(1))>>
    /\ scene.walls = <<[length |-> Rat(5, 2)]>>
    /\ aggregate.factor = Whole(1)


---------------------------------------------------------------------------
(* C21..C23: the aggregator's default and the layout's confidence, under   *)
(* LayoutSpec                                                              *)

Finite(r) == r[2] # 0

\* C21: for every list of objects and every non-empty list of walls
\* (walls of length 0, objects with zero or negative dimensions or zero
\* confidence included) the aggregator returns a finite factor above zero.
C21_FinitePositiveWithWalls ==
    (Aggregated /\ scene.walls # <<>>)
        => (Finite(aggregate.factor) /\ RLt(Whole(0), aggregate.factor))

\* no ratio contributes: no recognized object with a positive dimension and
\* no walls
NoRatioContributes(objects, walls) == ~HasValidRatio(objects) /\ walls = <<>>

\* the weighted mean of the contributing ratios: those of the objects, or
\* the one of the walls (of weight 0.7) when the objects give none
ContributingMean(objects, walls) ==
    IF HasValidRatio(objects)
    THEN RDiv(WeightedSum(objects), TotalWeight(objects))
    ELSE IF IsZero(MeanWallLength(walls)) THEN Infinity
    ELSE RDiv(Whole(250), RMul(MeanWallLength(walls), Whole(100)))

FactorSource(objects, walls) ==
    IF HasValidRatio(objects) /\ RLt(Whole(0), TotalWeight(objects)) THEN "objects"
    ELSE IF ~HasValidRatio(objects) /\ walls # <<>> THEN "walls"
    ELSE "default"

\* a layout whose factor comes from a recognized object
ObjectBasedLayout ==
    <<<<"OBJECT", "door", "0", "0", "0", "0.9", "0.5", "2.1", "0", "0", "1", "0.95">>>>

\* the confidence reported for it
ObjectBasedConfidence == extract_calibration_from_layout(ObjectBasedLayout).value.confidence

\* C23: a layout with zero contributing ratios (default factor 0.1) and a
\* layout whose factor comes from the walls only are each reported with a
\* lower confidence than a layout whose factor comes from recognized objects.
C23_ConfidenceFollowsWeighting ==
    Parsed
        => LET source == FactorSource(layout.outcome.value.objects,
                                      layout.outcome.value.walls)
           IN  /\ FactorSource(extract_calibration_from_layout(ObjectBasedLayout).value.objects,
                               <<>>) = "objects"
               /\ source \in {"default", "walls"}
                    => RLt(layout.outcome.value.confidence, ObjectBasedConfidence)


---------------------------------------------------------------------------
(* C24..C28: selection, pixel height, printed documents and intrinsics,    *)
(* under Spec                                                              *)

\* no depth map that can be read and no point cloud on the command line
NoUsableLidarData(a) == a.depth_map \in {"none", "unreadable"} /\ a.point_cloud = "none"

\* C24: a spatial request without usable LiDAR data and with a person
\* height succeeds by falling back to the height strategy: it ends with a
\* result of method "height" that carries a fallback_reason.
C24_SpatialFallsBackToHeight ==
    (Done /\ Serving /\ args.calibration_method = "spatial"
     /\ NoUsableLidarData(args) /\ Supplied(args.person_height)
     /\ env["image_loads"] # "no")
        => \E c \in Results : c.method = "height" /\ "fallback_reason" \in DOMAIN c

\* the input the requested method requires is on the command line
RequiredInputSupplied(a) ==
    CASE a.calibration_method = "direct" -> Supplied(a.calibration_factor)
      [] a.calibration_method = "height" -> Supplied(a.person_height)
      [] a.calibration_method = "reference" ->
            a.reference_object # "none"
            \/ (Supplied(a.ref_dims.width) /\ Supplied(a.ref_dims.height))
      [] a.calibration_method = "spatial" ->
            a.depth_map # "none" \/ a.point_cloud # "none"
      [] OTHER -> FALSE

\* C25: with a method requested explicitly, every result reports exactly
\* that method when its required input is supplied, and a request whose
\* required input is missing ends with an error and no result.
C25_RequestedMethodOrError ==
    (Serving /\ args.calibration_method # "none")
        => /\ RequiredInputSupplied(args)
                => \A c \in Results : c.method = args.calibration_method
           /\ (Done /\ ~RequiredInputSupplied(args))
                => (PrintedError /\ Results = {})


\* the landmark detector yields landmarks with at least one ankle of
\* visibility above 0.5
LandmarksUsable(p) == p.mediapipe /\ p.landmarks /\ (p.left_vis \/ p.right_vis)

\* the head landmark: the nose, else the topmost visible landmark
HeadY(p) == IF p.nose_vis THEN p.nose_y ELSE p.min_y

\* the visible ankles, averaged when both are visible
FootY(p) ==
    IF p.left_vis /\ p.right_vis THEN RDiv(RAdd(p.left_y, p.right_y), Whole(2))
    ELSE IF p.left_vis THEN p.left_y ELSE p.right_y

LandmarkHeight(p) == RSub(FootY(p), HeadY(p))

\* the height strategy has run its detectors on the decoded image
DetectorsRan ==
    /\ method = "height" /\ Supplied(args.person_height)
    /\ pc \in {"process", "emit", "done"}
    /\ env["image_loads"] = "yes" /\ env["pose"] # Unknown

\* C26: the landmark-based height (head landmark against the visible
\* ankles, averaged when both are visible) is the pixel height whenever the
\* landmarks hold at least one visible ankle; the bounding box is consulted
\* only when they do not; and a person-not-detected error is reported only
\* when the landmarks and the bounding box both gave nothing.
C26_PixelHeightOrder ==
    DetectorsRan
        => LET p == PoseOf(env["pose"])
           IN  /\ (LandmarksUsable(p) /\ calibration.method = "height")
                    => DetectedHeightPx = LandmarkHeight(p)
               /\ env["bbox"] # Unknown => ~LandmarksUsable(p)
               /\ (\E i \in DOMAIN stdout :
                      /\ stdout[i].kind = "error"
                      /\ stdout[i].error \in PersonNotDetectedErrors)
                    => (~LandmarksUsable(p) /\ env["bbox"] = "none")


\* C27: in src/wrapper.py, whenever the selected strategy has returned a
\* calibration the run prints exactly one document, the result document
\* with that calibration, and exits with 0; an error document is printed
\* only by runs that exit with 1; no run prints both kinds of document.
C27_RootPrintsOneDocument ==
    (prog = "root" /\ Done)
        => /\ calibration # NoCalibration
                => (stdout = <<ResultDoc(calibration)>> /\ exit_code = 0)
           /\ PrintedError => exit_code = 1
           /\ ~(PrintedError /\ Results # {})


\* the python wrapper has served a spatial request that names a readable
\* depth map and camera intrinsics
SpatialWithIntrinsics ==
    /\ prog = "python" /\ method = "spatial" /\ pc \in {"process", "done"}
    /\ args.depth_map = "ok" /\ args.camera_intrinsics # "none"

\* C28: in src/python/wrapper.py camera intrinsics supplied beside a
\* readable depth map go on to the point-cloud construction: the request is
\* not ended by the decoding of the intrinsics, and the error-fallback
\* result (factor 0.05, confidence 0.7) is produced only when something
\* else failed, which here is the loading of the image.
C28_IntrinsicsReachBuilder ==
    SpatialWithIntrinsics
        => /\ \A i \in DOMAIN stdout :
                stdout[i].kind = "error" => stdout[i].error # "JSONDecodeError"
           /\ tier = "wrapper_mock_after_error" => env["image_loads"] = "no"
           /\ calibration = SpatialResult(Rat(5, 100), Rat(7, 10))
                => env["image_loads"] = "no"


---------------------------------------------------------------------------
(* src/python/spatiallm_bridge.py: process_lidar_data with the builder,    *)
(* the inference and the layout parser spelled out                         *)

\* depth_data=None
NoDepthData == [supplied |-> "no"]

\* the depth data of a call: absent, a 2 x 2 map, a map whose samples do
\* not fill its dimensions, and a mapping of no supported format
BridgeDepthData ==
    {NoDepthData,
     [width |-> 2, height |-> 2, data |-> <<1, 0, 2, 1>>],
     [width |-> 2, height |-> 2, data |-> <<1, 2>>],
     [width |-> 2, height |-> 2]}

\* what the SpatialLM inference does with the point cloud: it raises, or it
\* infers a room with a door, bare walls, nothing, or writes a line that
\* does not parse
Inferences == {"raise", "door", "walls", "empty", "malformed"}

\* the layout text run_inference writes
InferredLayout(inference) ==
    CASE inference = "door" ->
            <<<<"OBJECT", "door", "0", "0", "0", "0.9", "0.5", "2.1", "0", "0", "1", "0.95">>>>
      [] inference = "walls" -> <<<<"WALL", "0", "0", "0", "0", "0", "2.5", "0">>>>
      [] inference = "malformed" -> <<<<"WALL", "0", "0", "0", "long", "0", "0", "0">>>>
      [] OTHER -> <<<<>>>>

\* the calibration mapping built from what SpatialLM().process_point_cloud
\* returns: its scale_factor and confidence, 0.1 and 0.9 without them; an
\* object without dimensions makes extract_reference_dimensions raise
pip_calibration_result(inference) ==
    CASE inference = "door" ->
            Ok([calibration_factor |-> Rat(14, 10), confidence |-> Rat(95, 100),
                reference_objects |-> "door"])
      [] inference = "malformed" -> Raise("KeyError")
      [] OTHER ->
            Ok([calibration_factor |-> Rat(1, 10), confidence |-> Rat(9, 10),
                reference_objects |-> "none"])

BridgeCalls ==
    [point_cloud : PointCloudArgs, source : SpatialLMSources, inference : Inferences]

\* if depth_data and not point_cloud_path
builds_point_cloud(depth_data, point_cloud) ==
    depth_data # NoDepthData /\ point_cloud = "none"

\* point_cloud_path = create_point_cloud_from_depth(...): what the builder
\* did when the real path called it
built_cloud(depth_data, img, camera_intrinsics, call) ==
    IF call.source # "none" /\ builds_point_cloud(depth_data, call.point_cloud)
    THEN [called |-> "create_point_cloud_from_depth",
          outcome |-> create_point_cloud_from_depth(depth_data, img, camera_intrinsics)]
    ELSE NotCalled

\* the real path has a point cloud and the inference returns
inference_returns(call, built) ==
    /\ call.source # "none"
    /\ IF built = NotCalled THEN call.point_cloud # "none" ELSE ~built.outcome.raised
    /\ call.inference # "raise"

\* layout_text = f.read(), for the repository's implementation
inferred_text(call, built) ==
    IF inference_returns(call, built) /\ call.source = "repo"
    THEN InferredLayout(call.inference)
    ELSE <<>>

\* calibration_result = extract_calibration_from_layout(layout_text, point_cloud)
parsed_layout(text) ==
    IF text # <<>>
    THEN [called |-> "extract_calibration_from_layout",
          outcome |-> extract_calibration_from_layout(text)]
    ELSE NotCalled

\* what real_spatiallm_processing returns or raises, given what the builder
\* and the parser did
real_outcome(call, built, parsed) ==
    IF built # NotCalled /\ built.outcome.raised THEN Raise(built.outcome.error)
    ELSE IF built = NotCalled /\ call.point_cloud = "none"
    THEN Raise("Either depth_data or point_cloud_path must be provided")
    ELSE IF call.inference = "raise" THEN Raise("SpatialLM inference failed")
    ELSE IF call.source = "repo" THEN parsed.outcome
    ELSE pip_calibration_result(call.inference)

\* the .ply files the call has left
files_of(built) == IF built = NotCalled THEN 0 ELSE files_left(built.outcome)

\* cv2.imread decodes the image
Loads(img) == IF img.path = "ok" THEN "yes" ELSE "no"

\* a variant without the try ... except around the real path
answer_of_unguarded(source, real, mock) ==
    IF source = "none"
    THEN [called |-> "process_lidar_data", tier |-> "bridge_mock_unavailable",
          outcome |-> mock]
    ELSE [called |-> "process_lidar_data", tier |-> "real", outcome |-> real]

\* process_lidar_data: the real path when SpatialLM is available, the mock
\* when it is not or when the real path raised
answer_of(source, real, mock) ==
    IF source = "none"
    THEN [called |-> "process_lidar_data", tier |-> "bridge_mock_unavailable",
          outcome |-> mock]
    ELSE IF real.raised
    THEN [called |-> "process_lidar_data", tier |-> "bridge_mock_after_error",
          outcome |-> mock]
    ELSE [called |-> "process_lidar_data", tier |-> "real", outcome |-> real]

BridgeInit ==
    /\ MainIdle
    /\ lidar_data \in BridgeDepthData
    /\ image_file \in ImageFiles
    /\ intrinsics \in CameraIntrinsics
    /\ bridge_call \in BridgeCalls
    /\ cloud = NotCalled /\ temp_files = 0
    /\ LayoutIdle
    /\ answer = NotCalled

\* process_lidar_data(image_path, depth_data, point_cloud_path, camera_intrinsics)
ProcessLidarData ==
    /\ answer = NotCalled
    /\ cloud' = built_cloud(lidar_data, image_file, intrinsics, bridge_call)
    /\ temp_files' = temp_files + files_of(cloud')
    /\ layout_text' = inferred_text(bridge_call, cloud')
    /\ layout' = parsed_layout(layout_text')
    /\ \E draw \in MockDraws :
         answer' = answer_of(bridge_call.source,
                             real_outcome(bridge_call, cloud', layout'),
                             mock_spatiallm_processing(Loads(image_file), draw))
    /\ UNCHANGED <<main_vars, lidar_data, image_file, intrinsics, bridge_call,
                   scene, aggregate>>

BridgeNext == ProcessLidarData

BridgeSpec == BridgeInit /\ [][BridgeNext]_vars

---------------------------------------------------------------------------
(* C29..C30: temporary files and errors of the bridge, under BridgeSpec    *)

Answered == answer # NotCalled

\* C29: every temporary point-cloud file created while a request with depth
\* data is served has been removed when the request completes, whether it
\* succeeded or failed.
C29_TempFilesRemoved == Answered => temp_files = 0

\* C30: process_lidar_data returns a mapping with calibration_factor and
\* confidence whenever the image is loadable, whatever the depth data, the
\* point cloud path, the intrinsics and the inferred layout; it raises only
\* when the image cannot be loaded, and then with the mock's error, never
\* with one of the real path.
C30_OnlyMockImageErrorSurfaces ==
    Answered
        => /\ image_file.path = "ok"
                => /\ ~answer.outcome.raised
                   /\ {"calibration_factor", "confidence"}
                          \subseteq DOMAIN answer.outcome.value
           /\ answer.outcome.raised
                => /\ image_file.path # "ok"
                   /\ answer.outcome.error = "Could not load image from"
                   /\ answer.tier \in {"bridge_mock_unavailable",
                                       "bridge_mock_after_error"}

\* a layout that does not parse has been answered by the mock
C30_Witness ==
    /\ Answered /\ image_file.path = "ok"
    /\ layout # NotCalled /\ layout.outcome.raised
    /\ answer.tier = "bridge_mock_after_error"
    /\ ~answer.outcome.raised
    /\ answer.outcome.value.confidence = Rat(92, 100)

=============================================================================
